---- MODULE Spec2Model ----
(***************************************************************************)
(* Task manager application: the task store (database.ts), the form and    *)
(* list screens that call it, the App component that opens it, and the     *)
(* session mirror of AppLayout (SpecSession).                              *)
(*                                                                         *)
(* A "chain" is one asynchronous call chain: an exported store function    *)
(* called directly (SpecOpen: concurrent getDb calls; Spec: one caller     *)
(* issuing any sequence of store calls, each statement being atomic in the *)
(* engine), or a UI handler together with the store function it awaits     *)
(* (SpecApp; SpecScenario and SpecFilter are the application with one user *)
(* and a storage that does not fail).  Every step between two awaits is    *)
(* one action.                                                             *)
(***************************************************************************)
EXTENDS Integers, Sequences, FiniteSets, TLC

\* ------------------------------------------------------------------ bounds
MaxOpeners == 3     \* getDb calls in flight at the same time (SpecOpen)
MaxChains == 2      \* handlers in flight at the same time (SpecApp)
MaxAttempts == 2    \* database-open attempts (calls of openDatabaseAsync)
MaxId == 2          \* highest rowid the AUTOINCREMENT counter may reach
MaxVisits == 2      \* times the form screen may be opened
MaxSessionOps == 2  \* session operations in flight at the same time
MaxLaunches == 2    \* times the application process is started
MaxListLen == 3     \* rows the database file holds at launch (SpecFilter)

\* ------------------------------------------------------------ input values
\* Titles are character sequences so that String.prototype.trim is computed.
\* What a direct caller passes as <<title, description, status>>.
TaskInputs == { << <<"a">>, "", "completed" >>, << <<>>, "d", "pending" >> }
StatusValues == { "pending", "completed" }
Ids == 1..MaxId                                 \* ids a caller may pass
Errors == { "SQLITE_IOERR", "SQLITE_FULL" }     \* what the storage may throw
Faults == Errors \cup { "none" }                \* "none": the call succeeds
Whitespace == { " " }
\* What the user may type into the form.
FormTitles == { <<>>, <<" ">>, <<" ", "a">> }
FormDescriptions == { "", "d" }

VARIABLES
  db,          \* database.ts `db`: 0 (null) or the handle of the connection
  dbPromise,   \* database.ts `dbPromise`: 0 (null) or the open attempt
  attempts,    \* one record per openDatabaseAsync call, in call order
  rows,        \* the tasks table, in rowid order
  seq,         \* sqlite_sequence of tasks (AUTOINCREMENT high-water mark)
  assigned,    \* history: every id an INSERT has ever generated
  chain,       \* the call chains
  ui,          \* component state of App, TaskListScreen and TaskFormScreen
  kv,          \* expo-sqlite/kv-store: the value of each key, 0 (null) if none
  layout,      \* component state of AppLayout
  auth,        \* the call chains of AppLayout's session operations
  hist         \* history: the session operation that ended last

\* The chains of the specification at hand.
Chains == DOMAIN chain

storeVars == <<db, dbPromise, attempts, rows, seq, assigned>>
sessionVars == <<kv, layout, auth, hist>>
vars == <<db, dbPromise, attempts, rows, seq, assigned, chain, ui,
          kv, layout, auth, hist>>

\* ------------------------------------------------------------------ values
NoRes == [kind |-> "none", err |-> "none", val |-> <<>>,
          lastInsertRowId |-> 0, changes |-> 0]
Ok(val, last, n) == [kind |-> "ok", err |-> "none", val |-> val,
                     lastInsertRowId |-> last, changes |-> n]
Err(e) == [kind |-> "err", err |-> e, val |-> <<>>,
           lastInsertRowId |-> 0, changes |-> 0]

NoWait == [kind |-> "none", k |-> 0]
IdleChain == [fn |-> "none", op |-> "none", pc |-> "idle",
              id |-> 0, title |-> <<>>, description |-> "", status |-> "",
              wait |-> NoWait, database |-> 0, res |-> NoRes, visit |-> 0]

Task(id, title, description, status) ==
  [id |-> id, title |-> title, description |-> description, status |-> status]

\* useState initial values of TaskFormScreen, TaskListScreen and App.
NewForm(taskId, visit) ==
  [taskId |-> taskId, title |-> <<>>, description |-> "",
   status |-> "pending", loading |-> FALSE, visit |-> visit]

\* useState initial values of TaskDetailScreen: task is null (<<>>) and
\* loading is true.
NewDetail(taskId, visit) ==
  [taskId |-> taskId, task |-> <<>>, loading |-> TRUE, visit |-> visit]

\* App mounted, its effect not yet run; no screen is rendered.
MountedApp ==
  [started |-> FALSE, dbInitialized |-> FALSE, route |-> "none",
   tasks |-> <<>>, loading |-> TRUE, filter |-> "all",
   form |-> NewForm(0, 0), detail |-> NewDetail(0, 0), alert |-> "none"]

\* AsyncStorage with no key set: getItem returns null, here <<>>; a key that
\* is set holds <<value>>.
NoKeys == [key \in {"userToken", "userInfo"} |-> <<>>]

\* useState initial values of AppLayout in launch n of the process
\* (n = 0: not started).  userInfo is <<>> (null) or <<object>>; crashed:
\* the render of the header has thrown.
NewLayout(n) ==
  [launches |-> n, userInfo |-> <<>>, loadingAuth |-> TRUE,
   alert |-> "none", crashed |-> FALSE]

\* What is remembered of a session operation that has ended: its function,
\* how it ended ("ok", "caught": its catch block ran, "uncaught": the error
\* left the handler) and the object it fetched or restored.
NoOp == [fn |-> "none", outcome |-> "none", user |-> <<>>]
\* ... together with: it ran with no other session operation in flight, the
\* session was fully present when it started, and the operation that ended
\* right before it.
NoHist == [fn |-> "none", outcome |-> "none", user |-> <<>>,
           alone |-> FALSE, full |-> FALSE, after |-> NoOp]

IdleOp == [fn |-> "none", pc |-> "idle", accessToken |-> "", kind |-> "none",
           user |-> <<>>, alone |-> FALSE, full |-> FALSE, after |-> NoOp]

\* ------------------------------------------------------------- SQL engine
RowIds(t) == { t[i].id : i \in 1..Len(t) }

\* INSERT INTO tasks (title, description, status) VALUES (?, ?, ?)
\* with id INTEGER PRIMARY KEY AUTOINCREMENT: the new rowid is one more than
\* the largest rowid the table has ever held.
NextRowId_Reuse(t, s) ==
  IF t = <<>> THEN 1 ELSE t[Len(t)].id + 1
NextRowId(t, s) == s + 1

InsertRow_Completed(t, newId, title, description, status) ==
  Append(t, Task(newId, title, description, "completed"))
InsertRow(t, newId, title, description, status) ==
  Append(t, Task(newId, title, description, status))

\* SELECT * FROM tasks
SelectAll(t) == t

\* SELECT * FROM tasks WHERE id = ?  (getFirstAsync: first row or null)
SelectById(t, id) ==
  LET hits == SelectSeq(t, LAMBDA r : r.id = id)
  IN IF hits = <<>> THEN <<>> ELSE <<hits[1]>>

\* UPDATE tasks SET title = ?, description = ?, status = ? WHERE id = ?
UpdateRow_Merge(t, id, title, description, status) ==
  [i \in 1..Len(t) |->
     IF t[i].id = id
       THEN Task(id, title,
                 IF description = "" THEN t[i].description ELSE description,
                 status)
       ELSE t[i]]
UpdateRow_NoWhere(t, id, title, description, status) ==
  [i \in 1..Len(t) |->
     IF id \in RowIds(t)
       THEN Task(t[i].id, title, description, status)
       ELSE t[i]]
UpdateRow_Upsert(t, id, title, description, status) ==
  IF id \in RowIds(t)
    THEN [i \in 1..Len(t) |->
            IF t[i].id = id THEN Task(id, title, description, status) ELSE t[i]]
    ELSE Append(t, Task(id, title, description, status))
UpdateRow(t, id, title, description, status) ==
  [i \in 1..Len(t) |->
     IF t[i].id = id THEN Task(id, title, description, status) ELSE t[i]]

\* DELETE FROM tasks WHERE id = ?
DeleteRow_All(t, id) ==
  IF id \in RowIds(t) THEN <<>> ELSE t
DeleteRow(t, id) == SelectSeq(t, LAMBDA r : r.id # id)

Changes(t, id) == Cardinality({ i \in 1..Len(t) : t[i].id = id })

\* ------------------------------------------------------------------ getDb
Handle(k) == k      \* the connection object openDatabaseAsync call k returns

PromiseState(k) ==
  IF attempts[k].schema = "ok" THEN "fulfilled"
  ELSE IF attempts[k].open = "fail" \/ attempts[k].schema = "fail"
    THEN "rejected"
  ELSE "pending"

\* Which branch of getDb a call takes.
GetDbPath_NoJoin(d, dp) ==
  IF d # 0 THEN "value" ELSE "open"
GetDbPath_NoCache(d, dp) ==
  IF dp # 0 /\ PromiseState(dp) = "pending" THEN "join" ELSE "open"
GetDbPath(d, dp) ==
  IF d # 0 THEN "value"
  ELSE IF dp # 0 THEN "join"
  ELSE "open"

\* The catch block of the open attempt: dbPromise = null.
MarkerAfterFailure_Kept(dp) == dp
MarkerAfterFailure(dp) == 0

\* The synchronous part of getDb, run by chain p whose record becomes c.
GetDb(p, c) ==
  LET how == GetDbPath(db, dbPromise)
      k == Len(attempts) + 1
  IN /\ how = "open" => Len(attempts) < MaxAttempts
     /\ attempts' = IF how = "open"
                       THEN Append(attempts, [open |-> "pending",
                                              schema |-> "none",
                                              err |-> "none"])
                       ELSE attempts
     /\ dbPromise' = IF how = "open" THEN k ELSE dbPromise
     /\ chain' = [chain EXCEPT ![p] =
          [c EXCEPT !.pc = "awaitDb",
                    !.wait = CASE how = "value" -> [kind |-> "val", k |-> db]
                               [] how = "join" -> [kind |-> "prom", k |-> dbPromise]
                               [] OTHER -> [kind |-> "prom", k |-> k]]]
     /\ UNCHANGED db

\* openDatabaseAsync of attempt k settles; on success execAsync(CREATE TABLE
\* IF NOT EXISTS tasks ...) is issued, on failure the catch block runs.
OpenDone_StoresEarly(k, f) ==
  /\ k \in 1..Len(attempts)
  /\ attempts[k].open = "pending"
  /\ IF f = "none"
       THEN /\ attempts' = [attempts EXCEPT ![k].open = "ok",
                                            ![k].schema = "pending"]
            /\ db' = Handle(k)
            /\ UNCHANGED dbPromise
       ELSE /\ attempts' = [attempts EXCEPT ![k].open = "fail",
                                            ![k].err = f]
            /\ dbPromise' = MarkerAfterFailure(dbPromise)
            /\ UNCHANGED db
  /\ UNCHANGED <<rows, seq, assigned, chain, ui, sessionVars>>
OpenDone(k, f) ==
  /\ k \in 1..Len(attempts)
  /\ attempts[k].open = "pending"
  /\ IF f = "none"
       THEN /\ attempts' = [attempts EXCEPT ![k].open = "ok",
                                            ![k].schema = "pending"]
            /\ UNCHANGED dbPromise
       ELSE /\ attempts' = [attempts EXCEPT ![k].open = "fail",
                                            ![k].err = f]
            /\ dbPromise' = MarkerAfterFailure(dbPromise)
  /\ UNCHANGED <<db, rows, seq, assigned, chain, ui, sessionVars>>

\* execAsync of attempt k settles; on success db = newDb and resolve(newDb).
SchemaDone(k, f) ==
  /\ k \in 1..Len(attempts)
  /\ attempts[k].schema = "pending"
  /\ IF f = "none"
       THEN /\ attempts' = [attempts EXCEPT ![k].schema = "ok"]
            /\ db' = Handle(k)
            /\ UNCHANGED dbPromise
       ELSE /\ attempts' = [attempts EXCEPT ![k].schema = "fail",
                                            ![k].err = f]
            /\ dbPromise' = MarkerAfterFailure(dbPromise)
            /\ UNCHANGED db
  /\ UNCHANGED <<rows, seq, assigned, chain, ui, sessionVars>>

\* What `await getDb()` yields to a chain that waits on w.
AwaitOutcome(w) ==
  IF w.kind = "val" THEN Ok(<<>>, 0, 0)
  ELSE IF PromiseState(w.k) = "fulfilled" THEN Ok(<<>>, 0, 0)
  ELSE Err(attempts[w.k].err)

AwaitHandle(w) ==
  IF w.kind = "val" THEN w.k
  ELSE IF PromiseState(w.k) = "fulfilled" THEN Handle(w.k)
  ELSE 0

CanResume_Early(p) == chain[p].pc = "awaitDb"
CanResume(p) ==
  /\ chain[p].pc = "awaitDb"
  /\ chain[p].wait.kind = "prom" => PromiseState(chain[p].wait.k) # "pending"

\* The store function of chain c has returned r (or thrown r.err) to the code
\* that awaits it; its own locals are gone.
Returned(c, r) ==
  [IdleChain EXCEPT !.fn = c.fn, !.op = c.op, !.visit = c.visit,
                    !.pc = "ret", !.res = r]

\* The chain record after `await getDb()` resumes: getDb itself returns the
\* connection; a store function issues its statement, or rethrows.
AfterGetDb(c) ==
  LET out == AwaitOutcome(c.wait)
      h == AwaitHandle(c.wait)
  IN IF out.kind = "err"
       THEN Returned(c, out)
     ELSE IF c.op = "getDb"
       THEN [Returned(c, out) EXCEPT !.database = h]
     ELSE [c EXCEPT !.pc = "stmt", !.wait = NoWait, !.database = h]

ResumeDb(p) ==
  /\ CanResume(p)
  /\ chain' = [chain EXCEPT ![p] = AfterGetDb(chain[p])]
  /\ UNCHANGED <<storeVars, ui, sessionVars>>

\* ------------------------------------------------- the store's statements
\* The effect of the statement of store function c.op on table t with
\* sequence s: <<table, sequence, result>>.
ApplyStmt(c, t, s) ==
  CASE c.op = "addTask" ->
         LET newId == NextRowId(t, s)
         IN <<InsertRow(t, newId, c.title, c.description, "pending"),
              IF newId > s THEN newId ELSE s,
              Ok(<<>>, newId, 1)>>
    [] c.op = "getTasks" -> <<t, s, Ok(SelectAll(t), 0, 0)>>
    [] c.op = "getTaskById" -> <<t, s, Ok(SelectById(t, c.id), 0, 0)>>
    [] c.op = "updateTask" ->
         <<UpdateRow(t, c.id, c.title, c.description, c.status), s,
           Ok(<<>>, 0, Changes(t, c.id))>>
    [] c.op = "deleteTask" ->
         <<DeleteRow(t, c.id), s, Ok(<<>>, 0, Changes(t, c.id))>>

\* catch (error) { console.error(...); throw error; } of a store function:
\* what its caller receives when the statement has thrown e.
Rethrow_Translated(e) == Err("SQLITE_IOERR")
Rethrow(e) == Err(e)

\* The statement of chain p runs in the engine.  A storage fault makes it
\* throw; the catch block logs and rethrows the same error.
ExecStmt(p, f) ==
  /\ chain[p].pc = "stmt"
  /\ IF f # "none"
       THEN /\ chain' = [chain EXCEPT ![p] = Returned(chain[p], Rethrow(f))]
            /\ UNCHANGED <<rows, seq, assigned>>
       ELSE LET out == ApplyStmt(chain[p], rows, seq)
            IN /\ rows' = out[1]
               /\ seq' = out[2]
               /\ assigned' = IF chain[p].op = "addTask"
                                 THEN assigned \cup {out[3].lastInsertRowId}
                                 ELSE assigned
               /\ chain' = [chain EXCEPT ![p] = Returned(chain[p], out[3])]
  /\ UNCHANGED <<db, dbPromise, attempts, ui, sessionVars>>

\* Inserts that have been called and have not run yet.
PendingInserts ==
  Cardinality({ p \in Chains : chain[p].op = "addTask"
                                 /\ chain[p].pc \in {"awaitDb", "stmt"} })
CanInsert == seq + PendingInserts < MaxId

\* ------------------------------------------------- direct calls (Spec)
\* A caller of the module invokes an exported function with any arguments.
Call(p, op, id, title, description, status) ==
  /\ chain[p].pc = "idle"
  /\ op = "addTask" => CanInsert
  /\ GetDb(p, [IdleChain EXCEPT !.fn = op, !.op = op, !.id = id,
                                !.title = title, !.description = description,
                                !.status = status])
  /\ UNCHANGED <<rows, seq, assigned, ui, sessionVars>>

CallAny(p) ==
  \/ Call(p, "getDb", 0, <<>>, "", "")
  \/ \E in \in TaskInputs : Call(p, "addTask", 0, in[1], in[2], "")
  \/ Call(p, "getTasks", 0, <<>>, "", "")
  \/ \E i \in Ids : Call(p, "getTaskById", i, <<>>, "", "")
  \/ \E i \in Ids, in \in TaskInputs :
       Call(p, "updateTask", i, in[1], in[2], in[3])
  \/ \E i \in Ids : Call(p, "deleteTask", i, <<>>, "", "")

\* The caller takes the result (or the exception) of its call.
Return(p) ==
  /\ chain[p].pc = "ret"
  /\ chain[p].fn = chain[p].op
  /\ chain' = [chain EXCEPT ![p] = IdleChain]
  /\ UNCHANGED <<storeVars, ui, sessionVars>>

\* The module as loaded, n idle chains, and the database file holding
\* table t, whose rows were inserted with ids 1..Len(t).
Loaded(n, t) ==
  /\ db = 0
  /\ dbPromise = 0
  /\ attempts = <<>>
  /\ rows = t
  /\ seq = Len(t)
  /\ assigned = 1..Len(t)
  /\ chain = [p \in 1..n |-> IdleChain]
  /\ ui = MountedApp
  /\ kv = NoKeys
  /\ layout = NewLayout(0)
  /\ auth = [p \in 1..MaxSessionOps |-> IdleOp]
  /\ hist = NoHist

Init == Loaded(1, <<>>)

Next ==
  \/ \E p \in Chains : CallAny(p)
  \/ \E k \in 1..MaxAttempts, f \in Faults : OpenDone(k, f)
  \/ \E k \in 1..MaxAttempts, f \in Faults : SchemaDone(k, f)
  \/ \E p \in Chains : ResumeDb(p)
  \/ \E p \in Chains, f \in Faults : ExecStmt(p, f)
  \/ \E p \in Chains : Return(p)

Spec == Init /\ [][Next]_vars

\* Concurrent callers of getDb only.
InitOpen == Loaded(MaxOpeners, <<>>)

NextOpen ==
  \/ \E p \in Chains : Call(p, "getDb", 0, <<>>, "", "")
  \/ \E k \in 1..MaxAttempts, f \in Faults : OpenDone(k, f)
  \/ \E k \in 1..MaxAttempts, f \in Faults : SchemaDone(k, f)
  \/ \E p \in Chains : ResumeDb(p)
  \/ \E p \in Chains : Return(p)

SpecOpen == InitOpen /\ [][NextOpen]_vars

\* ================================================== the application
\* String.prototype.trim on a character sequence.
RECURSIVE TrimLeft(_)
TrimLeft(s) ==
  IF s # <<>> /\ s[1] \in Whitespace THEN TrimLeft(Tail(s)) ELSE s
RECURSIVE TrimRight(_)
TrimRight(s) ==
  IF s # <<>> /\ s[Len(s)] \in Whitespace
    THEN TrimRight(SubSeq(s, 1, Len(s) - 1))
    ELSE s
Trim(s) == TrimRight(TrimLeft(s))

\* handleSaveTask: if (!title.trim()) return;
TitleRejected_EmptyOnly(title) == title = <<>>
TitleRejected(title) == Trim(title) = <<>>

\* toggleTaskStatus: currentStatus === 'pending' ? 'completed' : 'pending'
NewStatus_Done(currentStatus) ==
  IF currentStatus = "pending" THEN "done" ELSE "pending"
NewStatus_Same(currentStatus) == currentStatus
NewStatus(currentStatus) ==
  IF currentStatus = "pending" THEN "completed" ELSE "pending"

\* const filteredTasks = tasks.filter(...)
FilteredTasks_HidesCompleted(tasks, filter) ==
  SelectSeq(tasks, LAMBDA task :
    task.status = (IF filter = "all" THEN "pending" ELSE filter))
FilteredTasks(tasks, filter) ==
  SelectSeq(tasks, LAMBDA task : filter = "all" \/ task.status = filter)

\* tasks.find(task => task.id === taskId): the first match, or <<>>
FindTask(tasks, taskId) == SelectById(tasks, taskId)

\* The form screen that chain c belongs to is still the screen on top.
FormAlive(c) == ui.route = "TaskForm" /\ ui.form.visit = c.visit
\* The form's inputs and buttons are rendered (not the loading view).
FormShown == ui.route = "TaskForm" /\ ~(ui.form.loading /\ ui.form.taskId # 0)
\* The list's items are rendered.
ListShown == ui.route = "TaskList" /\ ~ui.loading
\* Alert.alert is modal: nothing else can be pressed until it is dismissed.
CanPress == ui.alert = "none"

\* Chain p calls store function op: the record of the call, then getDb.
StartCall(p, fn, op, id, title, description, status, visit) ==
  /\ GetDb(p, [IdleChain EXCEPT !.fn = fn, !.op = op, !.id = id,
                                !.title = title, !.description = description,
                                !.status = status, !.visit = visit])
  /\ UNCHANGED <<rows, seq, assigned, sessionVars>>

EndChain(p) ==
  /\ chain' = [chain EXCEPT ![p] = IdleChain]
  /\ UNCHANGED <<storeVars, sessionVars>>

\* loadTasks(): setLoading(true); await getTasks()
LoadTasks(p, u) ==
  /\ ui' = [u EXCEPT !.loading = TRUE]
  /\ StartCall(p, "loadTasks", "getTasks", 0, <<>>, "", "", 0)

\* App's effect: initialize() calls getDb.
AppInitialize(p) ==
  /\ ~ui.started
  /\ chain[p].pc = "idle"
  /\ ui' = [ui EXCEPT !.started = TRUE]
  /\ StartCall(p, "initialize", "getDb", 0, <<>>, "", "", 0)

\* initialize resumes: setDbInitialized(true) renders the navigator, the
\* list screen mounts and its focus listener calls loadTasks; on failure the
\* error is logged and the loading view stays.
InitializeDone_Always(p) ==
  /\ chain[p].pc = "ret"
  /\ chain[p].fn = "initialize"
  /\ LoadTasks(p, [ui EXCEPT !.dbInitialized = TRUE, !.route = "TaskList"])
InitializeDone(p) ==
  /\ chain[p].pc = "ret"
  /\ chain[p].fn = "initialize"
  /\ IF chain[p].res.kind = "ok"
       THEN LoadTasks(p, [ui EXCEPT !.dbInitialized = TRUE,
                                    !.route = "TaskList"])
       ELSE /\ EndChain(p)
            /\ UNCHANGED ui

\* loadTasks resumes: setTasks or alert, then setLoading(false).
LoadTasksDone_NoFinally(p) ==
  /\ chain[p].pc = "ret"
  /\ chain[p].fn = "loadTasks"
  /\ ui' = IF chain[p].res.kind = "ok"
             THEN [ui EXCEPT !.tasks = chain[p].res.val, !.loading = FALSE]
             ELSE [ui EXCEPT !.alert = "Erro"]
  /\ EndChain(p)
LoadTasksDone(p) ==
  /\ chain[p].pc = "ret"
  /\ chain[p].fn = "loadTasks"
  /\ ui' = IF chain[p].res.kind = "ok"
             THEN [ui EXCEPT !.tasks = chain[p].res.val, !.loading = FALSE]
             ELSE [ui EXCEPT !.alert = "Erro", !.loading = FALSE]
  /\ EndChain(p)

\* The checkbox of item i of the rendered list is pressed.
ToggleTaskStatus(p, i) ==
  /\ CanPress
  /\ ListShown
  /\ chain[p].pc = "idle"
  /\ i \in 1..Len(FilteredTasks(ui.tasks, ui.filter))
  /\ LET item == FilteredTasks(ui.tasks, ui.filter)[i]
         found == FindTask(ui.tasks, item.id)
     IN /\ found # <<>>
        /\ StartCall(p, "toggleTaskStatus", "updateTask", item.id,
                     found[1].title, found[1].description,
                     NewStatus(item.status), 0)
  /\ UNCHANGED ui

\* toggleTaskStatus resumes: loadTasks() (not awaited), or the alert.
ToggleDone_NoReload(p) ==
  /\ chain[p].pc = "ret"
  /\ chain[p].fn = "toggleTaskStatus"
  /\ ui' = IF chain[p].res.kind = "ok" THEN ui ELSE [ui EXCEPT !.alert = "Erro"]
  /\ EndChain(p)
ToggleDone(p) ==
  /\ chain[p].pc = "ret"
  /\ chain[p].fn = "toggleTaskStatus"
  /\ IF chain[p].res.kind = "ok"
       THEN LoadTasks(p, ui)
       ELSE /\ ui' = [ui EXCEPT !.alert = "Erro"]
            /\ EndChain(p)

\* The delete icon of item i is pressed and "Excluir" is confirmed.
HandleDeleteTask(p, i) ==
  /\ CanPress
  /\ ListShown
  /\ chain[p].pc = "idle"
  /\ i \in 1..Len(FilteredTasks(ui.tasks, ui.filter))
  /\ StartCall(p, "handleDeleteTask", "deleteTask",
               FilteredTasks(ui.tasks, ui.filter)[i].id, <<>>, "", "", 0)
  /\ UNCHANGED ui

DeleteDone(p) ==
  /\ chain[p].pc = "ret"
  /\ chain[p].fn = "handleDeleteTask"
  /\ IF chain[p].res.kind = "ok"
       THEN LoadTasks(p, [ui EXCEPT !.alert = "Sucesso"])
       ELSE /\ ui' = [ui EXCEPT !.alert = "Erro"]
            /\ EndChain(p)

SetFilter(f) ==
  /\ CanPress
  /\ ui.route = "TaskList"
  /\ f # ui.filter
  /\ ui' = [ui EXCEPT !.filter = f]
  /\ UNCHANGED <<storeVars, chain, sessionVars>>

DismissAlert ==
  /\ ui.alert # "none"
  /\ ui' = [ui EXCEPT !.alert = "none"]
  /\ UNCHANGED <<storeVars, chain, sessionVars>>

\* "Adicionar Nova Tarefa": navigate('TaskForm') mounts an empty form.
OpenNewForm ==
  /\ CanPress
  /\ ui.route = "TaskList"
  /\ ui.form.visit < MaxVisits
  /\ ui' = [ui EXCEPT !.route = "TaskForm",
                      !.form = NewForm(0, ui.form.visit + 1)]
  /\ UNCHANGED <<storeVars, chain, sessionVars>>

\* The edit icon of item i: navigate('TaskForm', {taskId}); the form's effect
\* runs loadTask: setLoading(true); await getTaskById(taskId).
OpenEditForm(p, i) ==
  /\ CanPress
  /\ ListShown
  /\ ui.form.visit < MaxVisits
  /\ chain[p].pc = "idle"
  /\ i \in 1..Len(FilteredTasks(ui.tasks, ui.filter))
  /\ LET taskId == FilteredTasks(ui.tasks, ui.filter)[i].id
         visit == ui.form.visit + 1
     IN /\ ui' = [ui EXCEPT !.route = "TaskForm",
                            !.form = [NewForm(taskId, visit)
                                        EXCEPT !.loading = TRUE]]
        /\ StartCall(p, "loadTask", "getTaskById", taskId, <<>>, "", "", visit)

\* navigation.goBack() called by chain p of a form screen, and what is left
\* of the handler (finally: setLoading(false)).  Leaving the form focuses
\* the list, whose listener calls loadTasks.  State updates of a form that
\* is gone, and goBack from a screen that is gone, do nothing; the state of
\* the form is discarded when it unmounts.
GoBackFrom(p, u) ==
  IF FormAlive(chain[p])
    THEN LoadTasks(p, [u EXCEPT !.route = "TaskList",
                                !.form = NewForm(0, u.form.visit)])
    ELSE /\ ui' = u
         /\ EndChain(p)

StayOnForm(p, u) ==
  /\ ui' = IF FormAlive(chain[p]) THEN [u EXCEPT !.form.loading = FALSE] ELSE u
  /\ EndChain(p)

\* loadTask of the form resumes.
FormLoadDone(p) ==
  /\ chain[p].pc = "ret"
  /\ chain[p].fn = "loadTask"
  /\ IF chain[p].res.kind = "ok" /\ chain[p].res.val # <<>>
       THEN LET task == chain[p].res.val[1]
            IN StayOnForm(p, IF FormAlive(chain[p])
                               THEN [ui EXCEPT !.form.title = task.title,
                                               !.form.description = task.description,
                                               !.form.status = task.status]
                               ELSE ui)
       ELSE GoBackFrom(p, [ui EXCEPT !.alert = "Erro"])

SetTitle(t) ==
  /\ CanPress
  /\ FormShown
  /\ t # ui.form.title
  /\ ui' = [ui EXCEPT !.form.title = t]
  /\ UNCHANGED <<storeVars, chain, sessionVars>>

SetDescription(d) ==
  /\ CanPress
  /\ FormShown
  /\ d # ui.form.description
  /\ ui' = [ui EXCEPT !.form.description = d]
  /\ UNCHANGED <<storeVars, chain, sessionVars>>

\* The status buttons are rendered only when editing.
SetStatus(s) ==
  /\ CanPress
  /\ FormShown
  /\ ui.form.taskId # 0
  /\ s # ui.form.status
  /\ ui' = [ui EXCEPT !.form.status = s]
  /\ UNCHANGED <<storeVars, chain, sessionVars>>

\* "Salvar" / "Atualizar" (disabled while loading).
HandleSaveTask_NotDisabled(p) ==
  /\ CanPress
  /\ FormShown
  /\ IF TitleRejected(ui.form.title)
       THEN /\ ui' = [ui EXCEPT !.alert = "Erro"]
            /\ UNCHANGED <<storeVars, chain, sessionVars>>
       ELSE /\ chain[p].pc = "idle"
            /\ ui' = [ui EXCEPT !.form.loading = TRUE]
            /\ IF ui.form.taskId # 0
                 THEN StartCall(p, "handleSaveTask", "updateTask",
                                ui.form.taskId, ui.form.title,
                                ui.form.description, ui.form.status,
                                ui.form.visit)
                 ELSE /\ CanInsert
                      /\ StartCall(p, "handleSaveTask", "addTask", 0,
                                   ui.form.title, ui.form.description, "",
                                   ui.form.visit)
HandleSaveTask(p) ==
  /\ CanPress
  /\ FormShown
  /\ ~ui.form.loading
  /\ IF TitleRejected(ui.form.title)
       THEN /\ ui' = [ui EXCEPT !.alert = "Erro"]
            /\ UNCHANGED <<storeVars, chain, sessionVars>>
       ELSE /\ chain[p].pc = "idle"
            /\ ui' = [ui EXCEPT !.form.loading = TRUE]
            /\ IF ui.form.taskId # 0
                 THEN StartCall(p, "handleSaveTask", "updateTask",
                                ui.form.taskId, ui.form.title,
                                ui.form.description, ui.form.status,
                                ui.form.visit)
                 ELSE /\ CanInsert
                      /\ StartCall(p, "handleSaveTask", "addTask", 0,
                                   ui.form.title, ui.form.description, "",
                                   ui.form.visit)

SaveDone(p) ==
  /\ chain[p].pc = "ret"
  /\ chain[p].fn = "handleSaveTask"
  /\ IF chain[p].res.kind = "ok"
       THEN GoBackFrom(p, [ui EXCEPT !.alert = "Sucesso"])
       ELSE StayOnForm(p, [ui EXCEPT !.alert = "Erro"])

\* "Cancelar" or the header's back button.
CancelForm(p) ==
  /\ CanPress
  /\ ui.route = "TaskForm"
  /\ chain[p].pc = "idle"
  /\ LoadTasks(p, [ui EXCEPT !.route = "TaskList",
                              !.form = NewForm(0, ui.form.visit)])

InitApp == Loaded(MaxChains, <<>>)

NextApp ==
  \/ \E p \in Chains : AppInitialize(p)
  \/ \E p \in Chains : InitializeDone(p)
  \/ \E k \in 1..MaxAttempts, f \in Faults : OpenDone(k, f)
  \/ \E k \in 1..MaxAttempts, f \in Faults : SchemaDone(k, f)
  \/ \E p \in Chains : ResumeDb(p)
  \/ \E p \in Chains, f \in Faults : ExecStmt(p, f)
  \/ \E p \in Chains : LoadTasksDone(p)
  \/ \E p \in Chains, i \in 1..MaxId : ToggleTaskStatus(p, i)
  \/ \E p \in Chains : ToggleDone(p)
  \/ \E p \in Chains, i \in 1..MaxId : HandleDeleteTask(p, i)
  \/ \E p \in Chains : DeleteDone(p)
  \/ \E f \in {"all", "pending", "completed"} : SetFilter(f)
  \/ DismissAlert
  \/ OpenNewForm
  \/ \E p \in Chains, i \in 1..MaxId : OpenEditForm(p, i)
  \/ \E p \in Chains : FormLoadDone(p)
  \/ \E t \in FormTitles : SetTitle(t)
  \/ \E d \in FormDescriptions : SetDescription(d)
  \/ \E s \in StatusValues : SetStatus(s)
  \/ \E p \in Chains : HandleSaveTask(p)
  \/ \E p \in Chains : SaveDone(p)
  \/ \E p \in Chains : CancelForm(p)

SpecApp == InitApp /\ [][NextApp]_vars

\* ====================================================== creating tasks
\* The list and the form in create mode.
NextCreate ==
  \/ \E p \in Chains : AppInitialize(p)
  \/ \E p \in Chains : InitializeDone(p)
  \/ \E k \in 1..MaxAttempts, f \in Faults : OpenDone(k, f)
  \/ \E k \in 1..MaxAttempts, f \in Faults : SchemaDone(k, f)
  \/ \E p \in Chains : ResumeDb(p)
  \/ \E p \in Chains, f \in Faults : ExecStmt(p, f)
  \/ \E p \in Chains : LoadTasksDone(p)
  \/ DismissAlert
  \/ OpenNewForm
  \/ \E t \in FormTitles : SetTitle(t)
  \/ \E d \in FormDescriptions : SetDescription(d)
  \/ \E p \in Chains : HandleSaveTask(p)
  \/ \E p \in Chains : SaveDone(p)
  \/ \E p \in Chains : CancelForm(p)

SpecCreate == InitApp /\ [][NextCreate]_vars

\* ================================================== one user, no faults
\* The application driven by one user who waits for each handler to end,
\* on a storage that does not fail.
BuyMilk == << "B", "u", "y", " ", "m", "i", "l", "k" >>
ScenarioTitles == { <<>>, BuyMilk }

InitScenario == Loaded(1, <<>>)

NextScenario ==
  \/ \E p \in Chains : AppInitialize(p)
  \/ \E p \in Chains : InitializeDone(p)
  \/ \E k \in 1..MaxAttempts : OpenDone(k, "none")
  \/ \E k \in 1..MaxAttempts : SchemaDone(k, "none")
  \/ \E p \in Chains : ResumeDb(p)
  \/ \E p \in Chains : ExecStmt(p, "none")
  \/ \E p \in Chains : LoadTasksDone(p)
  \/ \E p \in Chains, i \in 1..MaxId : ToggleTaskStatus(p, i)
  \/ \E p \in Chains : ToggleDone(p)
  \/ \E p \in Chains, i \in 1..MaxId : HandleDeleteTask(p, i)
  \/ \E p \in Chains : DeleteDone(p)
  \/ \E f \in {"all", "pending", "completed"} : SetFilter(f)
  \/ DismissAlert
  \/ OpenNewForm
  \/ \E p \in Chains, i \in 1..MaxId : OpenEditForm(p, i)
  \/ \E p \in Chains : FormLoadDone(p)
  \/ \E t \in ScenarioTitles : SetTitle(t)
  \/ \E d \in FormDescriptions : SetDescription(d)
  \/ \E s \in StatusValues : SetStatus(s)
  \/ \E p \in Chains : HandleSaveTask(p)
  \/ \E p \in Chains : SaveDone(p)
  \/ \E p \in Chains : CancelForm(p)

SpecScenario == InitScenario /\ [][NextScenario]_vars

\* ================================================== the list and its filter
\* The application started on a database file that already holds tasks,
\* with a storage that does not fail: the list is loaded and the user
\* switches the filter.
\* The tables the file may hold: rows with ids 1..n, each with any status.
StoredTables ==
  UNION { { [i \in 1..n |-> Task(i, <<"a">>, "", st[i])] :
              st \in [1..n -> StatusValues] } : n \in 0..MaxListLen }

InitFilter == \E t \in StoredTables : Loaded(1, t)

NextFilter ==
  \/ \E p \in Chains : AppInitialize(p)
  \/ \E p \in Chains : InitializeDone(p)
  \/ \E k \in 1..MaxAttempts : OpenDone(k, "none")
  \/ \E k \in 1..MaxAttempts : SchemaDone(k, "none")
  \/ \E p \in Chains : ResumeDb(p)
  \/ \E p \in Chains : ExecStmt(p, "none")
  \/ \E p \in Chains : LoadTasksDone(p)
  \/ \E f \in {"all", "pending", "completed"} : SetFilter(f)

SpecFilter == InitFilter /\ [][NextFilter]_vars

\* ================================================== the session mirror
\* AppLayout: fetchUserInfo, checkStoredUser and handleLogout over
\* AsyncStorage.  A storage call takes effect and resumes its caller in one
\* step, at any time after it was issued.
Ops == DOMAIN auth

Tokens == { "t1", "t2" }       \* access tokens the redirect may deliver

\* The identity the provider holds for a token, and the body of an error
\* response.
UserOf(token) ==
  IF token = "t1"
    THEN [name |-> "Ana Lima", email |-> "ana@x.org", picture |-> "ana.png"]
    ELSE [name |-> "Rui Sa", email |-> "rui@x.org", picture |-> "rui.png"]
ErrorBody == [error |-> "401"]

\* How `await fetch(...)` may end: a 2xx response with the user as JSON, a
\* non-2xx response with a JSON error body, a non-2xx response whose body
\* is not JSON, or a rejection (network failure).
ResponseKinds == { "success", "statusJson", "statusText", "network" }

\* res.json(): <<object>>, or <<>> if the body does not parse (it throws).
JsonOf(kind, token) ==
  CASE kind = "success" -> << UserOf(token) >>
    [] kind = "statusJson" -> << ErrorBody >>
    [] OTHER -> <<>>

\* JSON.stringify of an object: its members in key order, as text.
KeyOrder == << "name", "email", "picture", "error" >>
Stringify_NoPicture(o) ==
  LET ks == SelectSeq(KeyOrder, LAMBDA k : k \in DOMAIN o /\ k # "picture")
  IN [i \in 1..Len(ks) |-> << ks[i], o[ks[i]] >>]
Stringify(o) ==
  LET ks == SelectSeq(KeyOrder, LAMBDA k : k \in DOMAIN o)
  IN [i \in 1..Len(ks) |-> << ks[i], o[ks[i]] >>]

\* JSON.parse of such a text.
Parse(s) ==
  [k \in { s[i][1] : i \in 1..Len(s) } |->
     s[CHOOSE i \in 1..Len(s) : s[i][1] = k][2]]

\* AsyncStorage.setItem / getItem / removeItem on store.
SetItem(store, key, value) == [store EXCEPT ![key] = << value >>]
GetItem(store, key) == store[key]
RemoveItem_Keep(store, key) == store
RemoveItem(store, key) == [store EXCEPT ![key] = <<>>]

\* The header renders userInfo.name.split(' ')[0]: it throws for an object
\* that has no name.
Renders(u) == u = <<>> \/ "name" \in DOMAIN u[1]
SetUserInfo(l, u) ==
  [l EXCEPT !.userInfo = u, !.crashed = l.crashed \/ ~Renders(u)]

\* The header with its login or logout button is on screen and no alert
\* covers it.
HeaderShown ==
  /\ layout.launches > 0
  /\ ~layout.loadingAuth
  /\ ~layout.crashed
  /\ layout.alert = "none"

InFlight == { p \in Ops : auth[p].pc # "idle" }
FullyPresent ==
  /\ GetItem(kv, "userToken") # <<>>
  /\ GetItem(kv, "userInfo") # <<>>
  /\ layout.userInfo # <<>>

\* Operation c starts in chain p.
StartOp(p, c) ==
  /\ auth[p].pc = "idle"
  /\ auth' = [q \in Ops |->
       IF q = p THEN [c EXCEPT !.alone = (InFlight = {}),
                               !.full = FullyPresent]
       ELSE IF q \in InFlight THEN [auth[q] EXCEPT !.alone = FALSE]
       ELSE auth[q]]
  /\ hist' = NoHist

\* The operation of chain p ends.
EndOp(p, outcome, user) ==
  /\ auth' = [auth EXCEPT ![p] = IdleOp]
  /\ hist' = [fn |-> auth[p].fn, outcome |-> outcome, user |-> user,
              alone |-> auth[p].alone, full |-> auth[p].full,
              after |-> auth[p].after]

\* The process starts: whatever was in flight is gone with the previous
\* process, AppLayout mounts and its effect calls checkStoredUser:
\* setLoadingAuth(true); await AsyncStorage.getItem('userInfo').
Launch ==
  /\ layout.launches < MaxLaunches
  /\ layout' = NewLayout(layout.launches + 1)
  /\ auth' = [q \in Ops |->
       IF q = 1
         THEN [IdleOp EXCEPT
                 !.fn = "checkStoredUser", !.pc = "getItem", !.alone = TRUE,
                 !.after = IF InFlight = {} /\ hist.alone
                             THEN [fn |-> hist.fn, outcome |-> hist.outcome,
                                   user |-> hist.user]
                             ELSE NoOp]
         ELSE IdleOp]
  /\ hist' = NoHist
  /\ UNCHANGED <<storeVars, chain, ui, kv>>

\* checkStoredUser resumes.
GetItemDone(p, f) ==
  /\ auth[p].pc = "getItem"
  /\ IF f # "none"
       THEN /\ layout' = [layout EXCEPT !.loadingAuth = FALSE]
            /\ EndOp(p, "caught", <<>>)
       ELSE LET storedUserInfo == GetItem(kv, "userInfo")
                restored == IF storedUserInfo # <<>>
                              THEN << Parse(storedUserInfo[1]) >>
                              ELSE layout.userInfo
            IN /\ layout' = [SetUserInfo(layout, restored)
                               EXCEPT !.loadingAuth = FALSE]
               /\ EndOp(p, "ok", restored)
  /\ UNCHANGED <<storeVars, chain, ui, kv>>

\* The login button is pressed and the redirect comes back with
\* response.type === 'success' and an access token: fetchUserInfo(token)
\* calls fetch.
SignIn(p, token) ==
  /\ HeaderShown
  /\ layout.userInfo = <<>>
  /\ StartOp(p, [IdleOp EXCEPT !.fn = "fetchUserInfo", !.pc = "fetch",
                               !.accessToken = token])
  /\ UNCHANGED <<storeVars, chain, ui, kv, layout>>

\* fetch settles: on a response of any status res.json() is called, on a
\* rejection the catch block shows the alert.
FetchDone(p, kind) ==
  /\ auth[p].pc = "fetch"
  /\ IF kind = "network"
       THEN /\ layout' = [layout EXCEPT !.alert = "Erro no Login"]
            /\ EndOp(p, "caught", <<>>)
       ELSE /\ auth' = [auth EXCEPT ![p].pc = "json", ![p].kind = kind]
            /\ UNCHANGED <<layout, hist>>
  /\ UNCHANGED <<storeVars, chain, ui, kv>>

\* res.json() settles: setUserInfo(user) and setItem('userToken', ...) is
\* issued, or the catch block.
JsonDone(p) ==
  /\ auth[p].pc = "json"
  /\ LET user == JsonOf(auth[p].kind, auth[p].accessToken)
     IN IF user = <<>>
          THEN /\ layout' = [layout EXCEPT !.alert = "Erro no Login"]
               /\ EndOp(p, "caught", <<>>)
          ELSE /\ layout' = SetUserInfo(layout, user)
               /\ auth' = [auth EXCEPT ![p].pc = "setToken", ![p].user = user]
               /\ UNCHANGED hist
  /\ UNCHANGED <<storeVars, chain, ui, kv>>

\* setItem('userToken', accessToken) settles: setItem('userInfo',
\* JSON.stringify(user)) is issued, or the catch block.
SetTokenDone(p, f) ==
  /\ auth[p].pc = "setToken"
  /\ IF f # "none"
       THEN /\ layout' = [layout EXCEPT !.alert = "Erro no Login"]
            /\ EndOp(p, "caught", auth[p].user)
            /\ UNCHANGED kv
       ELSE /\ kv' = SetItem(kv, "userToken", auth[p].accessToken)
            /\ auth' = [auth EXCEPT ![p].pc = "setInfo"]
            /\ UNCHANGED <<layout, hist>>
  /\ UNCHANGED <<storeVars, chain, ui>>

SetInfoDone(p, f) ==
  /\ auth[p].pc = "setInfo"
  /\ IF f # "none"
       THEN /\ layout' = [layout EXCEPT !.alert = "Erro no Login"]
            /\ EndOp(p, "caught", auth[p].user)
            /\ UNCHANGED kv
       ELSE /\ kv' = SetItem(kv, "userInfo", Stringify(auth[p].user[1]))
            /\ EndOp(p, "ok", auth[p].user)
            /\ UNCHANGED layout
  /\ UNCHANGED <<storeVars, chain, ui>>

\* The logout button is pressed: removeItem('userToken') is issued.
HandleLogout(p) ==
  /\ HeaderShown
  /\ layout.userInfo # <<>>
  /\ StartOp(p, [IdleOp EXCEPT !.fn = "handleLogout", !.pc = "rmToken"])
  /\ UNCHANGED <<storeVars, chain, ui, kv, layout>>

\* removeItem('userToken') settles: removeItem('userInfo') is issued; a
\* rejection leaves handleLogout, which has no catch block.
RmTokenDone(p, f) ==
  /\ auth[p].pc = "rmToken"
  /\ IF f # "none"
       THEN /\ EndOp(p, "uncaught", <<>>)
            /\ UNCHANGED kv
       ELSE /\ kv' = RemoveItem(kv, "userToken")
            /\ auth' = [auth EXCEPT ![p].pc = "rmInfo"]
            /\ UNCHANGED hist
  /\ UNCHANGED <<storeVars, chain, ui, layout>>

\* removeItem('userInfo') settles: setUserInfo(null) and the alert.
RmInfoDone(p, f) ==
  /\ auth[p].pc = "rmInfo"
  /\ IF f # "none"
       THEN /\ EndOp(p, "uncaught", <<>>)
            /\ UNCHANGED <<kv, layout>>
       ELSE /\ kv' = RemoveItem(kv, "userInfo")
            /\ layout' = [SetUserInfo(layout, <<>>) EXCEPT !.alert = "Deslogado"]
            /\ EndOp(p, "ok", <<>>)
  /\ UNCHANGED <<storeVars, chain, ui>>

DismissSessionAlert ==
  /\ layout.alert # "none"
  /\ layout' = [layout EXCEPT !.alert = "none"]
  /\ UNCHANGED <<storeVars, chain, ui, kv, auth, hist>>

InitSession == Loaded(1, <<>>)

NextSession ==
  \/ Launch
  \/ \E p \in Ops, f \in Faults : GetItemDone(p, f)
  \/ \E p \in Ops, token \in Tokens : SignIn(p, token)
  \/ \E p \in Ops, kind \in ResponseKinds : FetchDone(p, kind)
  \/ \E p \in Ops : JsonDone(p)
  \/ \E p \in Ops, f \in Faults : SetTokenDone(p, f)
  \/ \E p \in Ops, f \in Faults : SetInfoDone(p, f)
  \/ \E p \in Ops : HandleLogout(p)
  \/ \E p \in Ops, f \in Faults : RmTokenDone(p, f)
  \/ \E p \in Ops, f \in Faults : RmInfoDone(p, f)
  \/ DismissSessionAlert

SpecSession == InitSession /\ [][NextSession]_vars

\* ================================================== launch and list screen
\* The application launched on a database file that holds two tasks: App
\* opens the database, then the navigator is rendered, which mounts the
\* list screen (its focus listener calls loadTasks) and AppLayout (its
\* effect calls checkStoredUser); the user works on the list.
StoredTwo ==
  << Task(1, <<"a">>, "d", "pending"), Task(2, <<"a">>, "", "completed") >>

\* AppLayout is a child of NavigationContainer, which App renders once
\* dbInitialized is true: it mounts in the commit that mounts the list
\* screen, that is right after initialize has started the first loadTasks.
MountLayout ==
  /\ ui.dbInitialized
  /\ layout.launches = 0
  /\ ui.tasks = <<>>
  /\ ui.alert = "none"
  /\ \E p \in Chains :
       /\ chain[p].fn = "loadTasks"
       /\ chain[p].pc = "awaitDb"
       /\ \A q \in Chains \ {p} : chain[q].pc = "idle"
  /\ Launch

InitList == Loaded(MaxChains, StoredTwo)

NextList ==
  \/ \E p \in Chains : AppInitialize(p)
  \/ \E p \in Chains : InitializeDone(p)
  \/ \E k \in 1..MaxAttempts, f \in Faults : OpenDone(k, f)
  \/ \E k \in 1..MaxAttempts, f \in Faults : SchemaDone(k, f)
  \/ \E p \in Chains : ResumeDb(p)
  \/ \E p \in Chains, f \in Faults : ExecStmt(p, f)
  \/ \E p \in Chains : LoadTasksDone(p)
  \/ \E p \in Chains, i \in 1..MaxId : ToggleTaskStatus(p, i)
  \/ \E p \in Chains : ToggleDone(p)
  \/ \E p \in Chains, i \in 1..MaxId : HandleDeleteTask(p, i)
  \/ \E p \in Chains : DeleteDone(p)
  \/ DismissAlert
  \/ MountLayout
  \/ \E p \in Ops, f \in Faults : GetItemDone(p, f)

SpecList == InitList /\ [][NextList]_vars

\* ======================================================= detail screen
\* The list, the detail screen reached from an item of the list, and the
\* layout around them.  (The form, reached from "Editar", is in SpecApp.)

\* The detail screen that chain c belongs to is still the screen on top.
DetailAlive(c) == ui.route = "TaskDetail" /\ ui.detail.visit = c.visit

\* An item of the list is pressed: navigate('TaskDetail', {taskId}) mounts
\* the screen, whose focus listener calls loadTask: setLoading(true);
\* await getTaskById(taskId).
OpenDetail(p, i) ==
  /\ CanPress
  /\ ListShown
  /\ ui.detail.visit < MaxVisits
  /\ chain[p].pc = "idle"
  /\ i \in 1..Len(FilteredTasks(ui.tasks, ui.filter))
  /\ LET taskId == FilteredTasks(ui.tasks, ui.filter)[i].id
         visit == ui.detail.visit + 1
     IN /\ ui' = [ui EXCEPT !.route = "TaskDetail",
                            !.detail = NewDetail(taskId, visit)]
        /\ StartCall(p, "detail.loadTask", "getTaskById", taskId,
                     <<>>, "", "", visit)

\* The detail screen is left (goBack, navigate('TaskList')) by chain p: the
\* list is focused and its listener calls loadTasks.  Leaving a screen that
\* is gone, and state updates of it, do nothing.
LeaveDetailFrom(p, u) ==
  IF DetailAlive(chain[p])
    THEN LoadTasks(p, [u EXCEPT !.route = "TaskList",
                                !.detail = NewDetail(0, u.detail.visit)])
    ELSE /\ ui' = u
         /\ EndChain(p)

\* loadTask of the detail screen resumes: setTask, or the alert and
\* goBack; finally setLoading(false).
DetailLoadDone(p) ==
  /\ chain[p].pc = "ret"
  /\ chain[p].fn = "detail.loadTask"
  /\ IF chain[p].res.kind = "ok" /\ chain[p].res.val # <<>>
       THEN /\ ui' = IF DetailAlive(chain[p])
                       THEN [ui EXCEPT !.detail.task = chain[p].res.val,
                                       !.detail.loading = FALSE]
                       ELSE ui
            /\ EndChain(p)
       ELSE LeaveDetailFrom(p, [ui EXCEPT !.alert = "Erro"])

\* The header's back button of the detail screen.
DetailBack(p) ==
  /\ CanPress
  /\ ui.route = "TaskDetail"
  /\ chain[p].pc = "idle"
  /\ LoadTasks(p, [ui EXCEPT !.route = "TaskList",
                              !.detail = NewDetail(0, ui.detail.visit)])

\* "Excluir" of the detail screen is pressed and confirmed.
DetailDeleteTask(p) ==
  /\ CanPress
  /\ ui.route = "TaskDetail"
  /\ ~ui.detail.loading
  /\ ui.detail.task # <<>>
  /\ chain[p].pc = "idle"
  /\ StartCall(p, "detail.handleDeleteTask", "deleteTask", ui.detail.taskId,
               <<>>, "", "", ui.detail.visit)
  /\ UNCHANGED ui

DetailDeleteDone(p) ==
  /\ chain[p].pc = "ret"
  /\ chain[p].fn = "detail.handleDeleteTask"
  /\ IF chain[p].res.kind = "ok"
       THEN LeaveDetailFrom(p, [ui EXCEPT !.alert = "Sucesso"])
       ELSE /\ ui' = [ui EXCEPT !.alert = "Erro"]
            /\ EndChain(p)

StoredOne == << Task(1, <<"a">>, "d", "pending") >>

InitDetail == Loaded(MaxChains, StoredOne)

NextDetail ==
  \/ NextList
  \/ \E p \in Chains, i \in 1..MaxId : OpenDetail(p, i)
  \/ \E p \in Chains : DetailLoadDone(p)
  \/ \E p \in Chains : DetailBack(p)
  \/ \E p \in Chains : DetailDeleteTask(p)
  \/ \E p \in Chains : DetailDeleteDone(p)

SpecDetail == InitDetail /\ [][NextDetail]_vars

\* The same with one user who waits for each handler to end.
InitListAlone == Loaded(1, StoredTwo)

SpecListAlone == InitListAlone /\ [][NextList]_vars

\* ------------------------------------------------------- calls observed
OpenCalls == Len(attempts)
SchemaCalls == Cardinality({ k \in 1..Len(attempts) : attempts[k].schema # "none" })
OpenedOk == { k \in 1..Len(attempts) : attempts[k].open = "ok" }
NoAttemptFailed == \A k \in 1..Len(attempts) : PromiseState(k) # "rejected"

\* Chain p holds the connection that `await getDb()` gave it.
HoldsConnection(p) ==
  \/ chain[p].pc = "stmt"
  \/ chain[p].pc = "ret" /\ chain[p].op = "getDb" /\ chain[p].res.kind = "ok"

\* The step is the statement of chain p, of store function op, running.
StmtRuns(p, op) ==
  /\ chain[p].pc = "stmt"
  /\ chain[p].op = op
  /\ chain'[p].pc = "ret"
Succeeds(p) == chain'[p].res.kind = "ok"

\* The step is chain p calling a store function (the synchronous part of
\* getDb runs), and the step in which its `await getDb()` resumes.
CallStep(p) == chain[p].pc = "idle" /\ chain'[p].pc = "awaitDb"
ResumeStep(p) == chain[p].pc = "awaitDb" /\ chain'[p].pc # "awaitDb"

\* ----------------------------------------------------------------- C1
\* C1: as long as no open attempt has failed, however many getDb calls are
\* made before the first one resolves, openDatabaseAsync is called once and
\* CREATE TABLE is issued once (at most once while the open is in flight),
\* every caller waits on that one attempt and every caller that has resumed
\* holds the same connection, the one stored in db.  In any case a pending
\* attempt is the only one in flight and is the one dbPromise names.
C1_OneOpenForConcurrentCalls ==
  /\ \A k \in 1..Len(attempts) :
       PromiseState(k) = "pending" => k = Len(attempts) /\ dbPromise = k
  /\ NoAttemptFailed =>
       /\ OpenCalls <= 1
       /\ SchemaCalls <= 1
       /\ db # 0 => OpenCalls = 1 /\ SchemaCalls = 1
       /\ \A p \in Chains :
            chain[p].pc = "awaitDb" /\ chain[p].wait.kind = "prom"
              => chain[p].wait.k = 1
       /\ \A p \in Chains :
            HoldsConnection(p) => chain[p].database = Handle(1) /\ db = Handle(1)

\* Every chain called getDb while attempt 1 was in flight; the attempt has
\* resolved with one open and one schema statement.
C1_Witness ==
  /\ OpenCalls = 1
  /\ SchemaCalls = 1
  /\ PromiseState(1) = "fulfilled"
  /\ \A p \in Chains : chain[p].pc = "awaitDb" /\ chain[p].wait = [kind |-> "prom", k |-> 1]

\* ----------------------------------------------------------------- C2
\* C2: after an open attempt fails dbPromise does not name it (the marker
\* is cleared), a getDb call made when db and dbPromise are both null
\* starts a new attempt, and a chain that awaited the failed attempt
\* resumes with the error that attempt threw.
C2_FailureClearsMarkerAndPropagates ==
  [][ /\ dbPromise' # 0 => PromiseState(dbPromise)' # "rejected"
      /\ \A p \in Chains :
           CallStep(p) /\ db = 0 /\ dbPromise = 0
             => /\ Len(attempts') = Len(attempts) + 1
                /\ dbPromise' = Len(attempts')
                /\ chain'[p].wait = [kind |-> "prom", k |-> dbPromise']
                /\ PromiseState(dbPromise)' = "pending"
      /\ \A p \in Chains :
           ( /\ ResumeStep(p)
             /\ chain[p].wait.kind = "prom"
             /\ PromiseState(chain[p].wait.k) = "rejected" )
             => /\ chain'[p].pc = "ret"
                /\ chain'[p].res = Err(attempts[chain[p].wait.k].err)
    ]_vars

\* A chain received the failure of attempt 1 and a later call started
\* attempt 2.
C2_Witness ==
  /\ Len(attempts) = 2
  /\ PromiseState(1) = "rejected"
  /\ dbPromise = 2
  /\ \E p \in Chains :
       /\ chain[p].pc = "ret"
       /\ chain[p].op = "getDb"
       /\ chain[p].res = Err(attempts[1].err)

\* ----------------------------------------------------------------- C3
\* C3 as stated: at most one underlying connection is ever opened
\* successfully, and once db holds a connection every getDb call returns it
\* without another open or schema statement.
C3_AsStated ==
  [][ /\ Cardinality(OpenedOk') <= 1
      /\ \A p \in Chains :
           CallStep(p) /\ db # 0
             => /\ attempts' = attempts
                /\ chain'[p].wait = [kind |-> "val", k |-> db]
    ]_vars

\* C3 amended: at most one connection is ever established, that is stored
\* in db and handed to callers: at most one attempt ever resolves, db never
\* changes once set, every connection a caller holds is db, and once db is
\* set every getDb call returns it without another open or schema
\* statement.  (An attempt whose open succeeded and whose schema statement
\* failed has opened a connection that is dropped; a later attempt opens
\* another.)
Fulfilled == { k \in 1..Len(attempts) : PromiseState(k) = "fulfilled" }

C3_ConnectionEstablishedOnce ==
  [][ /\ Cardinality(Fulfilled') <= 1
      /\ db # 0 => db' = db
      /\ db' # 0 => Fulfilled' = {db'}
      /\ \A p \in Chains : HoldsConnection(p)' => chain'[p].database = db'
      /\ \A p \in Chains :
           CallStep(p) /\ db # 0
             => /\ attempts' = attempts
                /\ chain'[p].wait = [kind |-> "val", k |-> db]
    ]_vars

\* Attempt 1 failed, attempt 2 established the connection, and a getDb call
\* made afterwards was answered with that connection.
C3_Witness ==
  /\ Len(attempts) = 2
  /\ PromiseState(1) = "rejected"
  /\ db = Handle(2)
  /\ \E p \in Chains : chain[p].wait = [kind |-> "val", k |-> Handle(2)]

\* ----------------------------------------------------------------- C4
\* C4: a successful addTask(title, description) with a non-empty title
\* makes SELECT * FROM tasks return the previous rows followed by exactly
\* one new row with status pending and the given title and description,
\* and a successful getTasks returns the rows of the table and leaves it.
C4_AddThenGetTasks ==
  [][ \A p \in Chains :
        /\ ( StmtRuns(p, "addTask") /\ Succeeds(p) /\ chain[p].title # <<>> )
             => LET after == SelectAll(rows')
                    before == SelectAll(rows)
                IN /\ Len(after) = Len(before) + 1
                   /\ SubSeq(after, 1, Len(before)) = before
                   /\ after[Len(after)].status = "pending"
                   /\ after[Len(after)].title = chain[p].title
                   /\ after[Len(after)].description = chain[p].description
                   /\ after[Len(after)].id = chain'[p].res.lastInsertRowId
        /\ ( StmtRuns(p, "getTasks") /\ Succeeds(p) )
             => chain'[p].res.val = rows /\ rows' = rows
    ]_vars

\* getTasks has returned a list that holds a row addTask inserted.
C4_Witness ==
  \E p \in Chains :
    /\ chain[p].pc = "ret"
    /\ chain[p].op = "getTasks"
    /\ chain[p].res.kind = "ok"
    /\ Len(chain[p].res.val) = 2
    /\ chain[p].res.val[2] = Task(2, <<"a">>, "", "pending")

\* ----------------------------------------------------------------- C5
\* C5 as stated: after any successful updateTask(id, t, d, s),
\* getTaskById(id) returns the row (id, t, d, s).
C5_AsStated ==
  [][ \A p \in Chains :
        ( StmtRuns(p, "updateTask") /\ Succeeds(p) )
          => SelectById(rows', chain[p].id)
               = << Task(chain[p].id, chain[p].title, chain[p].description,
                         chain[p].status) >>
    ]_vars

\* C5 amended: for an id present in the table, a successful
\* updateTask(id, t, d, s) makes SELECT ... WHERE id = ? return exactly
\* (id, t, d, s), whatever the row held before; for an id not in the table
\* it returns the empty result.  A successful getTaskById(id) returns what
\* that SELECT yields.
C5_UpdateThenGetById ==
  [][ \A p \in Chains :
        /\ ( StmtRuns(p, "updateTask") /\ Succeeds(p) )
             => SelectById(rows', chain[p].id)
                  = IF chain[p].id \in RowIds(rows)
                      THEN << Task(chain[p].id, chain[p].title,
                                   chain[p].description, chain[p].status) >>
                      ELSE <<>>
        /\ ( StmtRuns(p, "getTaskById") /\ Succeeds(p) )
             => /\ chain'[p].res.val = SelectById(rows, chain[p].id)
                /\ rows' = rows
    ]_vars

\* getTaskById has returned a row as ("a", "", completed): rows are inserted
\* pending, so this one was overwritten by updateTask and then read back.
C5_Witness ==
  \E p \in Chains :
    /\ chain[p].pc = "ret"
    /\ chain[p].op = "getTaskById"
    /\ chain[p].res.val = << Task(1, <<"a">>, "", "completed") >>

\* ----------------------------------------------------------------- C6
\* C6 as stated: after any successful deleteTask(id), getTaskById(id) is
\* empty and getTasks returns exactly one row fewer.
C6_AsStated ==
  [][ \A p \in Chains :
        ( StmtRuns(p, "deleteTask") /\ Succeeds(p) )
          => /\ SelectById(rows', chain[p].id) = <<>>
             /\ Len(SelectAll(rows')) = Len(SelectAll(rows)) - 1
    ]_vars

\* C6 amended: after a successful deleteTask(id), getTaskById(id) is empty;
\* getTasks returns exactly one row fewer if id was in the table and the
\* same number of rows if it was not.
C6_DeleteThenGet ==
  [][ \A p \in Chains :
        ( StmtRuns(p, "deleteTask") /\ Succeeds(p) )
          => /\ SelectById(rows', chain[p].id) = <<>>
             /\ Len(SelectAll(rows'))
                  = IF chain[p].id \in RowIds(rows)
                      THEN Len(SelectAll(rows)) - 1
                      ELSE Len(SelectAll(rows))
    ]_vars

\* A row has been deleted from a table of two and the other row is left.
C6_Witness ==
  /\ Len(rows) = 1
  /\ assigned = {1, 2}
  /\ \E p \in Chains :
       /\ chain[p].pc = "ret"
       /\ chain[p].op = "deleteTask"
       /\ chain[p].res.changes = 1

\* ----------------------------------------------------------------- C7
\* C7: for an id not in the table, a statement that runs without a storage
\* fault returns the empty result (getTaskById) or succeeds with zero rows
\* changed (updateTask, deleteTask); with or without a fault the table is
\* left unchanged and the only errors are the storage's own.
C7_MissingIdIsNoError ==
  [][ \A p \in Chains :
        ( /\ chain[p].pc = "stmt"
          /\ chain[p].op \in {"getTaskById", "updateTask", "deleteTask"}
          /\ chain[p].id \notin RowIds(rows)
          /\ chain'[p].pc = "ret" )
          => /\ rows' = rows
             /\ chain'[p].res.kind = "err" => chain'[p].res.err \in Errors
             /\ ExecStmt(p, "none") => chain'[p].res = Ok(<<>>, 0, 0)
    ]_vars

\* updateTask or deleteTask has returned normally having matched no row of
\* a table that holds another row.
C7_Witness ==
  /\ rows # <<>>
  /\ \E p \in Chains :
       /\ chain[p].pc = "ret"
       /\ chain[p].op \in {"updateTask", "deleteTask"}
       /\ chain[p].res = Ok(<<>>, 0, 0)

\* ----------------------------------------------------------------- C8
\* C8: no two rows share an id; a step changes the ids of the table only
\* by appending an id that no INSERT has generated before or by removing
\* ids, and updateTask leaves the id of every row as it was.
IdsOf(t) == [i \in 1..Len(t) |-> t[i].id]

C8_IdsUniqueNeverReused ==
  [][ /\ \A i, j \in 1..Len(rows') : rows'[i].id = rows'[j].id => i = j
      /\ \A i \in RowIds(rows') \ RowIds(rows) : i \notin assigned
      /\ \A p \in Chains :
           StmtRuns(p, "updateTask") => IdsOf(rows') = IdsOf(rows)
      /\ \A p \in Chains :
           StmtRuns(p, "addTask") /\ Succeeds(p)
             => SubSeq(IdsOf(rows'), 1, Len(rows)) = IdsOf(rows)
    ]_vars

\* Row 1 was deleted and the next insert was given id 2.
C8_Witness ==
  /\ IdsOf(rows) = <<2>>
  /\ assigned = {1, 2}

\* ----------------------------------------------------------------- C9
\* C9: in the application every row of the table has a status in
\* {pending, completed}, and so has every updateTask call that the form or
\* toggleTaskStatus has issued and every task and form field the screens
\* hold (addTask writes the literal 'pending').
C9_StatusClosed ==
  /\ \A i \in 1..Len(rows) : rows[i].status \in StatusValues
  /\ \A p \in Chains :
       chain[p].op = "updateTask" /\ chain[p].pc \in {"awaitDb", "stmt"}
         => chain[p].status \in StatusValues
  /\ \A i \in 1..Len(ui.tasks) : ui.tasks[i].status \in StatusValues
  /\ ui.form.status \in StatusValues

\* The form has overwritten a row and toggleTaskStatus has updated one, and
\* a row is completed.
C9_Witness ==
  /\ \E i \in 1..Len(rows) : rows[i].status = "completed"
  /\ \E p \in Chains, q \in Chains :
       /\ chain[p].pc = "ret"
       /\ chain[p].fn = "handleSaveTask"
       /\ chain[p].op = "updateTask"
       /\ chain[p].res.changes = 1
       /\ chain[q].pc = "ret"
       /\ chain[q].fn = "toggleTaskStatus"
       /\ chain[q].res.changes = 1

\* ----------------------------------------------------------------- C10
\* C10: in the application every stored title has a character that is not
\* whitespace and so has the title of every addTask or updateTask call that
\* handleSaveTask has issued, while the INSERT of addTask stores whatever
\* title it is given, the empty and the blank one included.
NonBlank(title) == \E i \in 1..Len(title) : title[i] \notin Whitespace

C10_TitleCheckedByFormOnly ==
  /\ \A i \in 1..Len(rows) : NonBlank(rows[i].title)
  /\ \A p \in Chains :
       chain[p].fn = "handleSaveTask" /\ chain[p].pc \in {"awaitDb", "stmt"}
         => NonBlank(chain[p].title)
  /\ \A t \in FormTitles :
       LET out == ApplyStmt([IdleChain EXCEPT !.op = "addTask", !.title = t],
                            rows, seq)
       IN /\ out[3].kind = "ok"
          /\ Len(out[1]) = Len(rows) + 1
          /\ out[1][Len(out[1])].title = t

\* A title with surrounding blanks has been saved, and a save with a blank
\* title has been answered with the alert and no call.
C10_Witness ==
  /\ \E i \in 1..Len(rows) : rows[i].title = <<" ", "a">>
  /\ ui.route = "TaskForm"
  /\ ui.form.taskId = 0
  /\ ui.form.title = <<" ">>
  /\ ~ui.form.loading
  /\ ui.alert = "Erro"
  /\ \A p \in Chains : chain[p].pc = "idle"

\* ------------------------------------------------- session: observations
\* How many of the stored userToken, the stored userInfo and the in-memory
\* userInfo are set.
PartsSet(store, l) ==
  (IF GetItem(store, "userToken") # <<>> THEN 1 ELSE 0)
  + (IF GetItem(store, "userInfo") # <<>> THEN 1 ELSE 0)
  + (IF l.userInfo # <<>> THEN 1 ELSE 0)

\* A storage call of a session operation has been issued and has not
\* settled.
StoragePending ==
  \E p \in Ops : auth[p].pc \in {"getItem", "setToken", "setInfo",
                                 "rmToken", "rmInfo"}

\* The step ends the session operation of chain p (the process goes on).
EndsOp(p) ==
  /\ auth[p].pc # "idle"
  /\ auth'[p].pc = "idle"
  /\ layout'.launches = layout.launches

\* ----------------------------------------------------------------- C11
\* C11 as stated, read at the states where the claim is most likely to
\* hold, those with no session operation in flight: the stored userToken,
\* the stored userInfo and the in-memory userInfo are all set or all unset.
C11_AsStated ==
  InFlight = {} => PartsSet(kv, layout) \in {0, 3}

\* ----------------------------------------------------------------- C12
\* C12 as stated: in every state where no storage call of a session
\* operation is pending, the in-memory userInfo equals the stored userInfo:
\* both are absent, or the stored text parses to the in-memory object.
C12_AsStated ==
  (layout.launches > 0 /\ ~StoragePending)
    => LET storedUserInfo == GetItem(kv, "userInfo")
       IN IF storedUserInfo = <<>>
            THEN layout.userInfo = <<>>
            ELSE layout.userInfo = << Parse(storedUserInfo[1]) >>

\* ----------------------------------------------------------------- C13
\* C13: when the process is started right after a handleLogout that ran to
\* its end with no other session operation in flight, checkStoredUser ends
\* with the in-memory userInfo absent, and so are both storage keys.
C13_LogoutThenRestore ==
  [][ \A p \in Ops :
        ( /\ EndsOp(p)
          /\ auth[p].fn = "checkStoredUser"
          /\ auth[p].after.fn = "handleLogout"
          /\ auth[p].after.outcome = "ok" )
          => /\ layout'.userInfo = <<>>
             /\ ~layout'.loadingAuth
             /\ PartsSet(kv', layout') = 0
    ]_vars

\* A user signed in and logged out in the first launch, and the second
\* launch has read the storage and found nobody.
C13_Witness ==
  /\ layout.launches = 2
  /\ hist.fn = "checkStoredUser"
  /\ hist.outcome = "ok"
  /\ hist.after.fn = "handleLogout"
  /\ hist.after.outcome = "ok"
  /\ layout.userInfo = <<>>

\* ----------------------------------------------------------------- C14
\* C14: when the process is started right after a fetchUserInfo that ran to
\* its end (both writes done) with no other session operation in flight,
\* and the read of the storage succeeds, checkStoredUser ends with the
\* in-memory userInfo holding the name, email and picture that res.json()
\* had delivered, and nothing else.
IdentityFields == { "name", "email", "picture" }

C14_SignInThenRestore ==
  [][ \A p \in Ops :
        ( /\ EndsOp(p)
          /\ auth[p].fn = "checkStoredUser"
          /\ hist'.outcome = "ok"
          /\ auth[p].after.fn = "fetchUserInfo"
          /\ auth[p].after.outcome = "ok" )
          => LET fetched == auth[p].after.user[1]
             IN /\ layout'.userInfo # <<>>
                /\ DOMAIN layout'.userInfo[1] = DOMAIN fetched
                /\ \A k \in IdentityFields \cap DOMAIN fetched :
                     layout'.userInfo[1][k] = fetched[k]
    ]_vars

\* The user of token t2 signed in in the first launch and the second launch
\* has restored that user from the storage.
C14_Witness ==
  /\ layout.launches = 2
  /\ hist.fn = "checkStoredUser"
  /\ hist.outcome = "ok"
  /\ hist.after.fn = "fetchUserInfo"
  /\ hist.after.outcome = "ok"
  /\ hist.after.user = << UserOf("t2") >>
  /\ layout.userInfo = << UserOf("t2") >>
  /\ GetItem(kv, "userToken") = << "t2" >>

\* ----------------------------------------------------------------- C15
\* C15 as stated: when a handleLogout that started from a fully present
\* session and ran with no other session operation in flight ends,
\* normally or with a storage error, the stored userToken, the stored
\* userInfo and the in-memory userInfo are all cleared or all still set.
C15_AsStated ==
  [][ \A p \in Ops :
        ( /\ EndsOp(p)
          /\ auth[p].fn = "handleLogout"
          /\ auth[p].alone
          /\ auth[p].full )
          => PartsSet(kv', layout') \in {0, 3}
    ]_vars

\* ----------------------------------------------------------------- C16
\* C16 as stated: a fetchUserInfo whose fetch was rejected (network
\* failure) or answered with a non-success response, running with no other
\* session operation in flight, ends with the alert "Erro no Login", and no
\* step of it changes the in-memory userInfo or a storage key.
C16_AsStated ==
  [][ \A p \in Ops :
        /\ ( /\ auth[p].fn = "fetchUserInfo"
             /\ auth[p].kind \in {"statusJson", "statusText"}
             /\ auth[p].alone
             /\ auth'[p] # auth[p]
             /\ layout'.launches = layout.launches )
             => /\ layout'.userInfo = layout.userInfo
                /\ kv' = kv
                /\ EndsOp(p) => layout'.alert = "Erro no Login"
        /\ ( /\ auth[p].pc = "fetch"
             /\ EndsOp(p) )
             => /\ layout'.userInfo = layout.userInfo
                /\ kv' = kv
                /\ layout'.alert = "Erro no Login"
    ]_vars

\* ----------------------------------------------------------------- C17
\* C17: when the statement of addTask, getTasks, getTaskById, updateTask or
\* deleteTask throws error f, the function ends and its caller receives
\* exactly f; the statement is not issued again, the table is as it was and
\* no database open is attempted.  When the getDb call inside the function
\* fails, the function ends without issuing its statement and its caller
\* receives the error of that open attempt.
StoreFunctions ==
  { "addTask", "getTasks", "getTaskById", "updateTask", "deleteTask" }

C17_FailuresSurfacedVerbatim ==
  [][ \A p \in Chains :
        /\ \A f \in Errors :
             ( chain[p].op \in StoreFunctions /\ ExecStmt(p, f) )
               => /\ chain'[p].pc = "ret"
                  /\ chain'[p].res = Err(f)
                  /\ <<rows', seq', assigned'>> = <<rows, seq, assigned>>
                  /\ <<db', dbPromise', attempts'>> = <<db, dbPromise, attempts>>
        /\ ( /\ chain[p].op \in StoreFunctions
             /\ ResumeStep(p)
             /\ chain[p].wait.kind = "prom"
             /\ PromiseState(chain[p].wait.k) = "rejected" )
             => /\ chain'[p].pc = "ret"
                /\ chain'[p].res = Err(attempts[chain[p].wait.k].err)
                /\ <<rows', seq', assigned'>> = <<rows, seq, assigned>>
                /\ attempts' = attempts
        /\ ( chain[p].op \in StoreFunctions /\ chain[p].pc = "ret"
             /\ chain[p].res.kind = "err" )
             => chain'[p] \in { chain[p], IdleChain }
    ]_vars

\* updateTask has ended with the error of its statement, on a table that
\* holds a row and a connection that is open.
C17_Witness ==
  /\ db # 0
  /\ rows # <<>>
  /\ \E p \in Chains :
       /\ chain[p].pc = "ret"
       /\ chain[p].op = "updateTask"
       /\ chain[p].res = Err("SQLITE_FULL")

\* ----------------------------------------------------------------- C18
\* C18 as stated, for the entry points of AppLayout: when a storage or
\* network call of fetchUserInfo, checkStoredUser or handleLogout fails,
\* the operation ends in its catch block (the error does not leave the
\* handler) with an alert on screen.
C18_AsStated ==
  [][ \A p \in Ops :
        ( EndsOp(p) /\ hist'.outcome # "ok" )
          => /\ hist'.outcome = "caught"
             /\ layout'.alert # "none"
    ]_vars

\* ----------------------------------------------------------------- C19
\* C19: with one user and a storage that does not fail: saving the new
\* task ("Buy milk", "") on an empty table leaves exactly the row
\* ("Buy milk", "", pending); toggling that row leaves it completed and
\* otherwise the same; deleting it leaves the table empty; and whenever the
\* list is on screen with no handler in flight it holds the rows of the
\* table, so that it shows the one pending task under 'all' and 'pending'
\* after the save, shows it under 'completed' and not under 'pending'
\* after the toggle, and is empty after the delete.
Settled == ListShown /\ \A p \in Chains : chain[p].pc = "idle"

IsBuyMilk(task, status) ==
  /\ task.title = BuyMilk
  /\ task.description = ""
  /\ task.status = status

C19_Scenario ==
  [][ /\ \A p \in Chains :
           ( /\ StmtRuns(p, "addTask")
             /\ chain[p].fn = "handleSaveTask"
             /\ chain[p].title = BuyMilk
             /\ chain[p].description = ""
             /\ rows = <<>> )
             => Len(rows') = 1 /\ IsBuyMilk(rows'[1], "pending")
      /\ \A p \in Chains :
           ( /\ StmtRuns(p, "updateTask")
             /\ chain[p].fn = "toggleTaskStatus"
             /\ Len(rows) = 1
             /\ IsBuyMilk(rows[1], "pending") )
             => /\ Len(rows') = 1
                /\ IsBuyMilk(rows'[1], "completed")
                /\ rows'[1].id = rows[1].id
      /\ \A p \in Chains :
           ( /\ StmtRuns(p, "deleteTask")
             /\ chain[p].fn = "handleDeleteTask"
             /\ Len(rows) = 1 )
             => rows' = <<>>
      /\ Settled'
           => /\ ui'.tasks = rows'
              /\ ( Len(rows') = 1 /\ IsBuyMilk(rows'[1], "pending") )
                   => /\ FilteredTasks(ui'.tasks, "all") = rows'
                      /\ FilteredTasks(ui'.tasks, "pending") = rows'
                      /\ FilteredTasks(ui'.tasks, "completed") = <<>>
              /\ ( Len(rows') = 1 /\ IsBuyMilk(rows'[1], "completed") )
                   => /\ FilteredTasks(ui'.tasks, "all") = rows'
                      /\ FilteredTasks(ui'.tasks, "completed") = rows'
                      /\ FilteredTasks(ui'.tasks, "pending") = <<>>
              /\ rows' = <<>>
                   => FilteredTasks(ui'.tasks, ui'.filter) = <<>>
    ]_vars

\* "Buy milk" was saved from the form, opened once and for a new task, so
\* the row was completed by the checkbox of the list; the list, under the
\* completed filter, shows it.
C19_Witness ==
  /\ Settled
  /\ ui.alert = "none"
  /\ ui.form.visit = 1
  /\ assigned = {1}
  /\ Len(rows) = 1
  /\ IsBuyMilk(rows[1], "completed")
  /\ ui.filter = "completed"
  /\ FilteredTasks(ui.tasks, ui.filter) = rows

\* ----------------------------------------------------------------- C20
\* C20: for the list the screen holds, filter 'all' yields the list itself;
\* filter 'pending' (and likewise 'completed') yields tasks of the list
\* that all have that status, as many as the list has with that status, in
\* the order of the list; no task is in both views and the two views
\* together have as many tasks as the list.
PosIn(tasks, id) == CHOOSE k \in 1..Len(tasks) : tasks[k].id = id

ViewOf(tasks, view, status) ==
  /\ \A i \in 1..Len(view) :
       /\ view[i].status = status
       /\ \E k \in 1..Len(tasks) : tasks[k] = view[i]
  /\ Len(view) = Cardinality({ k \in 1..Len(tasks) : tasks[k].status = status })
  /\ \A i, j \in 1..Len(view) :
       i < j => PosIn(tasks, view[i].id) < PosIn(tasks, view[j].id)

C20_FilterViews ==
  ListShown =>
    LET all == FilteredTasks(ui.tasks, "all")
        pending == FilteredTasks(ui.tasks, "pending")
        completed == FilteredTasks(ui.tasks, "completed")
    IN /\ all = ui.tasks
       /\ ViewOf(ui.tasks, pending, "pending")
       /\ ViewOf(ui.tasks, completed, "completed")
       /\ RowIds(pending) \cap RowIds(completed) = {}
       /\ RowIds(pending) \cup RowIds(completed) = RowIds(ui.tasks)
       /\ Len(pending) + Len(completed) = Len(ui.tasks)

\* The list holds a pending, a completed and a pending task and the
\* pending filter is selected: the list shows tasks 1 and 3.
C20_Witness ==
  /\ ListShown
  /\ Len(ui.tasks) = 3
  /\ ui.tasks[1].status = "pending"
  /\ ui.tasks[2].status = "completed"
  /\ ui.tasks[3].status = "pending"
  /\ ui.filter = "pending"
  /\ IdsOf(FilteredTasks(ui.tasks, ui.filter)) = <<1, 3>>

\* ----------------------------------------------------------------- C21
\* Calls the application has started and that have not settled: open
\* attempts (openDatabaseAsync or its CREATE TABLE), statements of store
\* functions, and the storage or network call of each session operation.
PendingOpens ==
  Cardinality({ k \in 1..Len(attempts) : PromiseState(k) = "pending" })
PendingStatements == Cardinality({ p \in Chains : chain[p].pc = "stmt" })
PendingCalls == PendingOpens + PendingStatements + Cardinality(InFlight)

\* C21 as stated: in no reachable state are two storage or network calls
\* started by the application pending at the same time.
C21_AsStated == PendingCalls <= 1

\* C21 amended: within one call chain every call is awaited to completion
\* before the next statement of the chain executes: a chain resumes from
\* `await getDb()` only when the open attempt it waits for has settled, it
\* issues its statement only in that step and on the connection that is
\* open, it calls the next store function only after the previous one has
\* returned, and toggleTaskStatus and handleDeleteTask call loadTasks only
\* after their update or delete has returned normally.  (Different call
\* chains do have calls pending at the same time.)
C21_AwaitedWithinChain ==
  [][ \A p \in Chains :
        /\ ( ResumeStep(p) /\ chain[p].wait.kind = "prom" )
             => PromiseState(chain[p].wait.k) \in {"fulfilled", "rejected"}
        /\ ( chain[p].pc # "stmt" /\ chain'[p].pc = "stmt" )
             => /\ ResumeStep(p)
                /\ db # 0
                /\ chain'[p].database = db
        /\ ( chain[p].pc # "awaitDb" /\ chain'[p].pc = "awaitDb" )
             => chain[p].pc \in {"idle", "ret"}
        /\ ( /\ chain[p].fn \in {"toggleTaskStatus", "handleDeleteTask"}
             /\ chain'[p].fn = "loadTasks" )
             => /\ chain[p].pc = "ret"
                /\ chain[p].res.kind = "ok"
    ]_vars

\* At launch the first load of the list has its SELECT pending while
\* checkStoredUser has its getItem pending.
C21_Witness ==
  /\ \E p \in Chains : chain[p].fn = "loadTasks" /\ chain[p].pc = "stmt"
  /\ \E q \in Ops : auth[q].fn = "checkStoredUser" /\ auth[q].pc = "getItem"
  /\ PendingCalls = 2

\* ----------------------------------------------------------------- C22
\* The step in which chain p, running handler fn, takes the normal result
\* of its update or delete.
MutationReturns(p, fn) ==
  /\ chain[p].fn = fn
  /\ chain[p].pc = "ret"
  /\ chain[p].res.kind = "ok"
  /\ chain'[p] # chain[p]

TakesResult(p, fn) ==
  /\ chain[p].fn = fn
  /\ chain[p].pc = "ret"
  /\ chain'[p] # chain[p]
\* The call made by fn in chain p has not settled.
Unsettled(p, fn) == chain[p].fn = fn /\ chain[p].pc \in {"awaitDb", "stmt"}

\* The flags go from true to false only in the step in which the handler
\* that set them takes the result of its storage call, and that step
\* resets them whether the call succeeded or failed.
FlagsResetOnSettle ==
  /\ ( ui.loading /\ ~ui'.loading )
       => \E p \in Chains : TakesResult(p, "loadTasks")
  /\ \A p \in Chains : TakesResult(p, "loadTasks") => ~ui'.loading
  /\ ( /\ ui.route = "TaskDetail" /\ ui'.route = "TaskDetail"
       /\ ui'.detail.visit = ui.detail.visit
       /\ ui.detail.loading /\ ~ui'.detail.loading )
       => \E p \in Chains : /\ TakesResult(p, "detail.loadTask")
                            /\ DetailAlive(chain[p])
  /\ \A p \in Chains :
       ( TakesResult(p, "detail.loadTask") /\ DetailAlive(chain[p])
         /\ ui'.route = "TaskDetail" )
         => ~ui'.detail.loading
  /\ ( layout.loadingAuth /\ ~layout'.loadingAuth )
       => \E q \in Ops : /\ auth[q].fn = "checkStoredUser"
                         /\ auth[q].pc = "getItem"
                         /\ auth'[q].pc = "idle"
  /\ \A q \in Ops :
       ( /\ auth[q].fn = "checkStoredUser" /\ auth[q].pc = "getItem"
         /\ auth'[q].pc = "idle" )
         => ~layout'.loadingAuth

\* While the call of the detail screen on top, or of the layout, has not
\* settled, its flag is true.
FlagsHeldWhileUnsettled ==
  /\ \A p \in Chains :
       ( Unsettled(p, "detail.loadTask") /\ DetailAlive(chain[p]) )
         => ui.detail.loading
  /\ \A q \in Ops :
       ( auth[q].fn = "checkStoredUser" /\ auth[q].pc = "getItem" )
         => layout.loadingAuth

Complement(status) == IF status = "pending" THEN "completed" ELSE "pending"

\* C24 as stated: the UPDATE of a toggleTaskStatus that finds its row
\* writes back the title and description stored for that id and leaves the
\* complement of the stored status, also when another toggle is in
\* flight.
C24_AsStated ==
  [][ \A p \in Chains :
        ( /\ StmtRuns(p, "updateTask")
          /\ chain[p].fn = "toggleTaskStatus"
          /\ Succeeds(p)
          /\ SelectById(rows, chain[p].id) # <<>> )
          => LET before == SelectById(rows, chain[p].id)[1]
                 after == SelectById(rows', chain[p].id)[1]
             IN /\ after.title = before.title
                /\ after.description = before.description
                /\ after.status = Complement(before.status)
    ]_vars

\* ----------------------------------------------------------------- C25
\* The rows of t whose id is not id, in the order of the table.
OtherRows(t, id) == SelectSeq(t, LAMBDA r : r.id # id)

\* C25: a step that is not the statement of addTask, updateTask or
\* deleteTask leaves the table unchanged (getTasks, getTaskById and getDb
\* among them); the statement of updateTask(id, ...) and deleteTask(id)
\* leaves every row with another id unchanged; the statement of addTask
\* leaves every existing row unchanged.
C25_Frame ==
  [][ /\ ( \A p \in Chains :
             ~( StmtRuns(p, "addTask") \/ StmtRuns(p, "updateTask")
                \/ StmtRuns(p, "deleteTask") ) )
           => rows' = rows
      /\ \A p \in Chains :
           ( StmtRuns(p, "getTasks") \/ StmtRuns(p, "getTaskById") )
             => rows' = rows
      /\ \A p \in Chains :
           ( StmtRuns(p, "updateTask") \/ StmtRuns(p, "deleteTask") )
             => OtherRows(rows', chain[p].id) = OtherRows(rows, chain[p].id)
      /\ \A p \in Chains :
           StmtRuns(p, "addTask")
             => /\ Len(rows') >= Len(rows)
                /\ SubSeq(rows', 1, Len(rows)) = rows
    ]_vars

\* updateTask has changed one row of a table of two and the other row is
\* as it was inserted.
C25_Witness ==
  /\ Len(rows) = 2
  /\ \E p \in Chains :
       /\ chain[p].pc = "ret"
       /\ chain[p].op = "updateTask"
       /\ chain[p].res.changes = 1
       /\ \E i \in 1..2 :
            /\ rows[i].id # chain[p].id
            /\ rows[i].status = "pending"
            /\ rows[3 - i].status = "completed"

\* ----------------------------------------------------------------- C26
\* Attempt k opened the database and its CREATE TABLE statement succeeded.
SchemaCreated(k) ==
  /\ k \in 1..Len(attempts)
  /\ attempts[k].open = "ok"
  /\ attempts[k].schema = "ok"

\* C26: db is set, and an open promise is resolved, only by the step in
\* which the CREATE TABLE statement of an attempt whose open succeeded
\* succeeds; a connection that a caller has received is db, the one of
\* such an attempt; and while db is non-null dbPromise is non-null (it
\* names that attempt).
C26_SchemaBeforeConnection ==
  [][ /\ db' # 0 => /\ dbPromise' # 0
                    /\ SchemaCreated(dbPromise)'
                    /\ db' = Handle(dbPromise')
      /\ db' # db => \E k \in 1..Len(attempts) :
                        /\ attempts[k].open = "ok"
                        /\ attempts[k].schema = "pending"
                        /\ attempts'[k].schema = "ok"
                        /\ db' = Handle(k)
      /\ \A k \in Fulfilled' : SchemaCreated(k)' /\ db' = Handle(k)
      /\ \A p \in Chains :
           HoldsConnection(p)' => /\ chain'[p].database = db'
                                  /\ db' # 0
    ]_vars

\* The first attempt failed at CREATE TABLE, the second succeeded, and a
\* caller has received the connection of the second.
C26_Witness ==
  /\ Len(attempts) = 2
  /\ attempts[1].open = "ok"
  /\ attempts[1].schema = "fail"
  /\ SchemaCreated(2)
  /\ db = Handle(2)
  /\ dbPromise = 2
  /\ \E p \in Chains : HoldsConnection(p) /\ chain[p].database = Handle(2)

\* ----------------------------------------------------------------- C27
\* The initial getDb call, made by App's effect, has failed.
InitializeFailed == Len(attempts) = 1 /\ PromiseState(1) = "rejected"

\* C27: a screen is rendered only when the getDb call of App's effect has
\* succeeded, so every store call of a screen finds db set and takes it
\* without opening; the only open attempt is the one of App's effect, and
\* once it has failed no screen is rendered and no call is made.
C27_StartupGating ==
  [][ /\ ui'.route # "none" => /\ ui'.dbInitialized
                               /\ db' # 0
                               /\ PromiseState(1)' = "fulfilled"
      /\ \A p \in Chains :
           CallStep(p) =>
             IF chain'[p].fn = "initialize"
               THEN attempts = <<>> /\ ui.route = "none"
               ELSE /\ ui.dbInitialized
                    /\ db # 0
                    /\ chain'[p].wait = [kind |-> "val", k |-> db]
                    /\ attempts' = attempts
      /\ \A p \in Chains :
           ( ResumeStep(p) /\ chain[p].fn # "initialize" )
             => chain'[p].pc = "stmt" /\ chain'[p].database = db
      /\ Len(attempts') <= 1
      /\ InitializeFailed =>
           /\ \A p \in Chains : ~CallStep(p)
           /\ ui'.route = "none"
           /\ ~ui'.dbInitialized
    ]_vars

\* The initial getDb call has failed and initialize has ended: the loading
\* view is shown and nothing is pending.
C27_Witness ==
  /\ InitializeFailed
  /\ ui.started
  /\ ~ui.dbInitialized
  /\ ui.route = "none"
  /\ \A p \in Chains : chain[p].pc = "idle"

\* ----------------------------------------------------------------- C28
\* Chain q runs the save of the form visit on screen.
SaveOfThisVisit(q) ==
  /\ chain[q].fn = "handleSaveTask"
  /\ chain[q].pc # "idle"
  /\ chain[q].visit = ui.form.visit

\* C28: addTask is called from a form visit only while no save of that
\* visit is in flight or has returned (the button is disabled while
\* loading, and loading is true from the press until the handler ends);
\* the step in which a save takes a normal result ends the visit, and a
\* visit that has ended does not come back; only after a save has failed
\* does the same visit accept another.  So one visit inserts at most one
\* row.
C28_OneInsertPerVisit ==
  [][ /\ \A p \in Chains :
           ( CallStep(p) /\ chain'[p].op = "addTask" )
             => /\ ~ui.form.loading
                /\ chain'[p].visit = ui.form.visit
                /\ \A q \in Chains : ~SaveOfThisVisit(q)
      /\ \A q \in Chains :
           ( SaveOfThisVisit(q) /\ ui.route = "TaskForm" ) => ui.form.loading
      /\ \A p \in Chains :
           ( TakesResult(p, "handleSaveTask") /\ FormAlive(chain[p]) )
             => IF chain[p].res.kind = "ok"
                  THEN ui'.route = "TaskList"
                  ELSE /\ ui'.route = "TaskForm"
                       /\ ui'.form.visit = ui.form.visit
                       /\ ~ui'.form.loading
                       /\ ui'.alert = "Erro"
      /\ ui'.form.visit >= ui.form.visit
      /\ ( ui.route = "TaskList" /\ ui'.route = "TaskForm" )
           => ui'.form.visit > ui.form.visit
    ]_vars

\* The INSERT of a save has succeeded and the handler has not resumed yet:
\* the form is still on screen with its save button disabled, and the
\* other chain is free.
C28_Witness ==
  /\ ui.route = "TaskForm"
  /\ ui.form.taskId = 0
  /\ ui.form.loading
  /\ ui.alert = "none"
  /\ Len(rows) = 1
  /\ \E p \in Chains :
       /\ SaveOfThisVisit(p)
       /\ chain[p].op = "addTask"
       /\ chain[p].pc = "ret"
       /\ chain[p].res.kind = "ok"
       /\ \A q \in Chains \ {p} : chain[q].pc = "idle"

====
